---- MODULE Spec2Model ----
(***************************************************************************)
(* A model of the Chord node of systems/chord/node.py: the per-node State  *)
(* record, the single-slot query engine (start_query / end_query), the     *)
(* protocol continuations (join, stabilize, rectify, lookup) and the       *)
(* handlers driven by the main loop (start, receive, timeout), composed    *)
(* over a lossy network.                                                   *)
(*                                                                         *)
(* A Pointer is represented by its id (Pointer equality is by id); the     *)
(* null pointer is None.  A Query is the record (tag, dst, arg): tag names *)
(* the continuation closure, arg is the pointer or id the closure          *)
(* captured.  An exception raised inside a handler leaves self.state       *)
(* unassigned, sends nothing and leaves main_loop: err[n] records it.      *)
(***************************************************************************)
EXTENDS Integers, Sequences, FiniteSets, TLC

\* ---------------------------------------------------------------- bounds
\* at most MaxNet messages are in flight; a send beyond that is lost
MaxNet == 2
\* the main loops run at most MaxTicks timeout ticks in total
MaxTicks == 3

\* ------------------------------------------------------------- constants
None == 0
NoTime == 0
Clock == 1
ID_SPACE_SIZE == 64
SUCC_LIST_LEN == 2

A == 10
B == 30
C == 50
D == 40

\* st[n]   the State record of node n
\* pc[n]   where node n's thread is: "new" (constructed), "loop" (in
\*         main_loop), "dead" (an exception left main_loop)
\* err[n]  the exception that node n raised, or "none"
\* net     the messages in flight
\* last    the handler that acted last, and on which node (a tick that finds
\*         the query still young does nothing and is not recorded)
\* ticks   the number of timeout ticks so far
VARIABLES st, pc, err, net, last, ticks

vars == <<st, pc, err, net, last, ticks>>

\* the nodes that were constructed
Nodes == DOMAIN st

\* ------------------------------------------------------- data (data.py)
between(a, x, b) ==
    IF a < b THEN a < x /\ x < b
    ELSE IF a > b THEN x > a \/ x < b
    ELSE x # a

\* make_succs is called as make_succs(head, rest): it has no access to the
\* node's own pointer, so it is [head] + rest cut to SUCC_LIST_LEN.
make_succs(head, rest) ==
    LET l == <<head>> \o rest
    IN  IF Len(l) > SUCC_LIST_LEN THEN SubSeq(l, 1, SUCC_LIST_LEN) ELSE l

Progress(s, p) == (p - s.ptr) % ID_SPACE_SIZE

best_predecessor(s, id) ==
    LET cand == {i \in 1..Len(s.succ_list) : between(s.ptr, s.succ_list[i], id)}
    IN  IF cand = {} THEN s.ptr
        ELSE LET i == CHOOSE i \in cand :
                        \A j \in cand : Progress(s, s.succ_list[j]) <= Progress(s, s.succ_list[i])
             IN  s.succ_list[i]

\* ----------------------------------------------------- queries, messages
NoQuery == [tag |-> "none", dst |-> None, arg |-> None]

NoMsg == [src |-> None, dst |-> None, kind |-> "None", data |-> <<>>]

Send(dst, kind, data) == [dst |-> dst, kind |-> kind, data |-> data]

notify(node) == <<Send(node, "notify", <<>>)>>

rectify_query(pred, notifier) == [tag |-> "rectify", dst |-> pred, arg |-> notifier]

stabilize_query(succ) == [tag |-> "stabilize", dst |-> succ, arg |-> None]

stabilize2(new_succ) == [tag |-> "stabilize2", dst |-> new_succ, arg |-> None]

lookup_predecessor(node, id) == [tag |-> "lookup_predecessor", dst |-> node, arg |-> id]

lookup_succ(node, id) == lookup_predecessor(node, id)

join_query(known, me) == lookup_succ(known, me)

get_succ(node) == [tag |-> "get_succ", dst |-> node, arg |-> None]

join2(new_succ) == [tag |-> "join2", dst |-> new_succ, arg |-> None]

\* the request a query sends (ping / get_succ_list / get_pred_and_succs /
\* get_best_predecessor)
QueryMsg(q) ==
    CASE q.tag = "rectify" -> Send(q.dst, "ping", <<>>)
      [] q.tag = "stabilize" -> Send(q.dst, "get_pred_and_succs", <<>>)
      [] q.tag = "lookup_predecessor" -> Send(q.dst, "get_best_predecessor", <<q.arg>>)
      [] OTHER -> Send(q.dst, "get_succ_list", <<>>)

\* the res_kind of a query
ResKind(q) ==
    CASE q.tag = "rectify" -> "pong"
      [] q.tag = "stabilize" -> "got_pred_and_succs"
      [] q.tag = "lookup_predecessor" -> "got_best_predecessor"
      [] q.tag = "none" -> "none"
      [] OTHER -> "got_succ_list"

\* ------------------------------------------- results of callbacks/handlers
OutNone == [kind |-> "None", q |-> NoQuery, sends |-> <<>>]

OutQuery(q) == [kind |-> "Query", q |-> q, sends |-> <<>>]

OutList(sends) == [kind |-> "list", q |-> NoQuery, sends |-> sends]

Ret(output, s) == [output |-> output, st |-> s, err |-> "none"]

Raise(e, s) == [output |-> OutNone, st |-> s, err |-> e]

Ok(outs, s) == [outs |-> outs, st |-> s, err |-> "none"]

Fail(e, s) == [outs |-> <<>>, st |-> s, err |-> e]

\* ------------------------------------------------ protocol continuations
\* rectify_query.cb that tests the arc from ptr to pred
rectify_query_cb_swapped(s, q, msg) ==
    IF msg.kind = "None" THEN Ret(OutNone, [s EXCEPT !.pred = q.arg])
    ELSE IF s.pred = None THEN Raise("AttributeError", s)
    ELSE IF between(s.ptr, q.arg, s.pred) THEN Ret(OutNone, [s EXCEPT !.pred = q.arg])
    ELSE Ret(OutNone, s)

\* rectify_query.cb: q.arg is the notifier, msg is the pong or NoMsg
rectify_query_cb(s, q, msg) ==
    IF msg.kind = "None" THEN Ret(OutNone, [s EXCEPT !.pred = q.arg])
    ELSE IF s.pred = None THEN Raise("AttributeError", s)
    ELSE IF between(s.pred, q.arg, s.ptr) THEN Ret(OutNone, [s EXCEPT !.pred = q.arg])
    ELSE Ret(OutNone, s)

\* stabilize_timeout with an empty rest accepted: the list empties and the
\* query ends
stabilize_timeout_empties(s) ==
    LET rest == Tail(s.succ_list)
    IN  IF Len(rest) = 0 THEN Ret(OutNone, [s EXCEPT !.succ_list = rest])
        ELSE Ret(OutQuery(stabilize_query(rest[1])), [s EXCEPT !.succ_list = rest])

\* stabilize_timeout that asks the failed head again
stabilize_timeout_same_head(s) ==
    LET rest == Tail(s.succ_list)
    IN  IF Len(rest) = 0 THEN Raise("IndexError", s)
        ELSE Ret(OutQuery(stabilize_query(s.succ_list[1])), [s EXCEPT !.succ_list = rest])

\* the timeout branch of stabilize_query.cb
stabilize_timeout(s) ==
    LET rest == Tail(s.succ_list)
    IN  IF Len(rest) = 0 THEN Raise("IndexError", s)
        ELSE Ret(OutQuery(stabilize_query(rest[1])), [s EXCEPT !.succ_list = rest])

\* the response branch of stabilize_query.cb: msg.data = [pred] + succ_list
stabilize_response(s, succ, msg) ==
    IF Len(msg.data) = 0 THEN Raise("IndexError", s)
    ELSE LET new_succ == msg.data[1]
             succs == Tail(msg.data)
             s1 == [s EXCEPT !.succ_list = make_succs(succ, succs)]
         IN  IF new_succ = None THEN Raise("AttributeError", s)
             ELSE IF between(s1.ptr, new_succ, succ)
                  THEN Ret(OutQuery(stabilize2(new_succ)), s1)
                  ELSE Ret(OutList(notify(succ)), s1)

\* stabilize_query.cb: q.dst is the captured succ
stabilize_query_cb(s, q, msg) ==
    IF Len(s.succ_list) = 0 THEN Raise("IndexError", s)
    ELSE IF q.dst # s.succ_list[1] THEN Raise("AssertionError", s)
    ELSE IF msg.kind # "None" THEN stabilize_response(s, q.dst, msg)
    ELSE stabilize_timeout(s)

\* stabilize2.cb: q.dst is the captured new_succ
stabilize2_cb(s, q, msg) ==
    IF msg.kind # "None"
    THEN Ret(OutList(notify(q.dst)), [s EXCEPT !.succ_list = make_succs(q.dst, msg.data)])
    ELSE IF Len(s.succ_list) = 0 THEN Raise("IndexError", s)
    ELSE Ret(OutList(notify(s.succ_list[1])), s)

\* join_query.cb that retries the join at once when the lookup failed
join_query_cb_retries(s, msg) ==
    IF msg.kind # "None"
    THEN IF Len(msg.data) = 0 THEN Raise("IndexError", s)
         ELSE Ret(OutQuery(join2(msg.data[1])), s)
    ELSE Ret(OutQuery(join_query(s.known, s.ptr)), s)

\* join_query.cb, which get_succ hands to get_succ_list unwrapped: msg is
\* the got_succ_list message itself
join_query_cb(s, msg) ==
    IF msg.kind # "None"
    THEN IF Len(msg.data) = 0 THEN Raise("IndexError", s)
         ELSE Ret(OutQuery(join2(msg.data[1])), s)
    ELSE Ret(OutNone, s)

\* lookup_succ.inner_cb with cb = join_query.cb
lookup_succ_cb(s, msg) ==
    IF msg.kind # "None"
    THEN IF Len(msg.data) = 0 THEN Raise("IndexError", s)
         ELSE Ret(OutQuery(get_succ(msg.data[1])), s)
    ELSE join_query_cb(s, msg)

\* lookup_predecessor.inner_cb: q.dst is the captured node, q.arg the id
lookup_predecessor_cb(s, q, msg) ==
    IF msg.kind # "None"
    THEN IF Len(msg.data) = 0 THEN Raise("IndexError", s)
         ELSE IF msg.data[1] = q.dst THEN lookup_succ_cb(s, msg)
         ELSE Ret(OutQuery(lookup_predecessor(msg.data[1], q.arg)), s)
    ELSE lookup_succ_cb(s, msg)

\* join2.cb that stores [new_succ] + msg.data as it is
join2_cb_untrimmed(s, q, msg) ==
    IF msg.kind # "None"
    THEN Ret(OutNone, [s EXCEPT !.succ_list = <<q.dst>> \o msg.data,
                                !.pred = None, !.joined = TRUE])
    ELSE Ret(OutNone, s)

\* join2.cb: q.dst is the captured new_succ
join2_cb(s, q, msg) ==
    IF msg.kind # "None"
    THEN Ret(OutNone, [s EXCEPT !.succ_list = make_succs(q.dst, msg.data),
                                !.pred = None, !.joined = TRUE])
    ELSE Ret(OutNone, s)

\* state.query.cb(state, msg)
RunCb(s, msg) ==
    LET q == s.query
    IN  CASE q.tag = "rectify" -> rectify_query_cb(s, q, msg)
          [] q.tag = "stabilize" -> stabilize_query_cb(s, q, msg)
          [] q.tag = "stabilize2" -> stabilize2_cb(s, q, msg)
          [] q.tag = "lookup_predecessor" -> lookup_predecessor_cb(s, q, msg)
          [] q.tag = "get_succ" -> join_query_cb(s, msg)
          [] q.tag = "join2" -> join2_cb(s, q, msg)
          [] OTHER -> Raise("AttributeError", s)

\* ------------------------------------------------------------ query engine
start_query(s, query) ==
    IF s.query # NoQuery THEN Fail("InterruptedQuery", s)
    ELSE Ok(<<QueryMsg(query)>>, [s EXCEPT !.query = query, !.query_sent = Clock])

try_rectify(s) ==
    IF s.rectify_with = None THEN Ok(<<>>, s)
    ELSE IF s.query # NoQuery THEN Fail("InterruptedQuery", s)
    ELSE IF s.pred = None THEN Ok(<<>>, [s EXCEPT !.pred = s.rectify_with])
    ELSE start_query([s EXCEPT !.rectify_with = None],
                     rectify_query(s.pred, s.rectify_with))

\* end_query that leaves the old query in the slot
clear_query_skipped(s) == s

\* state._replace(query=None)
clear_query(s) == [s EXCEPT !.query = NoQuery]

\* the part of end_query after the callback has returned (output, state)
end_query_dispatch(output, s0) ==
    LET s == clear_query(s0)
    IN  CASE output.kind = "None" ->
                IF s.joined THEN try_rectify(s) ELSE Ok(<<>>, s)
          [] output.kind = "Query" -> start_query(s, output.q)
          [] output.kind = "list" ->
                IF s.joined
                THEN LET r == try_rectify(s)
                     IN  IF r.err # "none" THEN r ELSE Ok(output.sends \o r.outs, r.st)
                ELSE Ok(output.sends, s)
          [] OTHER -> Fail("BadQueryCallbackResult", s0)

end_query(s, msg) ==
    IF s.query_sent = NoTime THEN Fail("TypeError", s)
    ELSE IF s.query = NoQuery THEN Fail("AttributeError", s)
    ELSE LET r == RunCb(s, msg)
         IN  IF r.err # "none" THEN Fail(r.err, s)
             ELSE end_query_dispatch(r.output, r.st)

\* ---------------------------------------------------------------- handlers
ServerKinds == {"get_best_predecessor", "get_succ_list", "get_pred_and_succs", "notify", "ping"}

ResponseKinds == {"got_best_predecessor", "got_succ_list", "got_pred_and_succs", "pong"}

\* the guard without the comparison of src and query.dst
Matches_any_src(s, src, msg) ==
    s.query # NoQuery /\ msg.kind = ResKind(s.query)

\* the guard of the end_query branch of recv_handler
Matches(s, src, msg) ==
    s.query # NoQuery /\ msg.kind = ResKind(s.query) /\ src = s.query.dst

\* the notify branch running try_rectify whether or not a query is in flight
recv_notify_eager(s, src) ==
    try_rectify([s EXCEPT !.rectify_with = src])

\* the notify branch of recv_handler
recv_notify(s, src) ==
    LET s1 == [s EXCEPT !.rectify_with = src]
    IN  IF s1.query = NoQuery THEN try_rectify(s1) ELSE Ok(<<>>, s1)

\* the get_succ_list branch answering the node's own address
recv_get_succ_list_to_self(s, src) ==
    Ok(<<Send(s.ptr, "got_succ_list", s.succ_list)>>, s)

\* the get_succ_list branch of recv_handler
recv_get_succ_list(s, src) ==
    Ok(<<Send(src, "got_succ_list", s.succ_list)>>, s)

recv_handler(s, src, msg) ==
    CASE msg.kind = "get_best_predecessor" ->
            Ok(<<Send(src, "got_best_predecessor", <<best_predecessor(s, msg.data[1])>>)>>, s)
      [] msg.kind = "get_succ_list" -> recv_get_succ_list(s, src)
      [] msg.kind = "get_pred_and_succs" ->
            Ok(<<Send(src, "got_pred_and_succs", <<s.pred>> \o s.succ_list)>>, s)
      [] msg.kind = "notify" -> recv_notify(s, src)
      [] msg.kind = "ping" -> Ok(<<Send(src, "pong", <<>>)>>, s)
      [] OTHER ->
            IF Matches(s, src, msg) THEN end_query(s, msg)
            ELSE Fail("UnexpectedMessage", s)

\* timeout_handler; expired is time.time() - state.query_sent > QUERY_TIMEOUT
timeout_handler(s, expired) ==
    IF s.query = NoQuery
    THEN IF s.joined
         THEN IF Len(s.succ_list) = 0 THEN Fail("IndexError", s)
              ELSE start_query(s, stabilize_query(s.succ_list[1]))
         ELSE start_query(s, join_query(s.known, s.ptr))
    ELSE IF expired THEN end_query(s, NoMsg)
    ELSE Ok(<<>>, s)

start_handler(s, known) ==
    IF Len(s.succ_list) = 0
    THEN IF known = None THEN Fail("ValueError", s)
         ELSE start_query([s EXCEPT !.known = known], join_query(known, s.ptr))
    ELSE Ok(<<>>, s)

\* ------------------------------------------------------------ construction
\* Node.__init__ without pred and succ_list
Fresh(n) ==
    [ptr |-> n, pred |-> None, succ_list |-> <<>>, joined |-> FALSE,
     rectify_with |-> None, known |-> None, query |-> NoQuery, query_sent |-> NoTime]

\* Node.__init__ with pred and a succ_list of length SUCC_LIST_LEN
Seeded(n, pred, succ_list) ==
    [Fresh(n) EXCEPT !.pred = pred, !.succ_list = succ_list, !.joined = TRUE]

\* the solo ring A and a node B still to join
SoloRing == [n \in {A, B} |-> IF n = A THEN Seeded(A, A, <<A, A>>) ELSE Fresh(n)]

\* the consistent ring A -> B -> C -> A
FullRing ==
    [n \in {A, B, C} |->
        CASE n = A -> Seeded(A, C, <<B, C>>)
          [] n = B -> Seeded(B, A, <<C, A>>)
          [] OTHER -> Seeded(C, B, <<A, B>>)]

Configurations == {SoloRing, FullRing}

\* the bootstrap pointers start() is called with
Knowns == {None, A, B}

\* ------------------------------------------------------------ the system
\* send_all over the transport: best effort, at most MaxNet in flight
Transmit(network, n, outs) ==
    LET new == {[src |-> n, dst |-> outs[i].dst, kind |-> outs[i].kind,
                 data |-> outs[i].data] : i \in 1..Len(outs)}
    IN  IF Cardinality(network \cup new) <= MaxNet THEN network \cup new ELSE network

\* "sends, self.state = handler(...); self.send_all(sends)": an exception
\* leaves the state as it was and ends the node's thread
Commit(n, r, network, op) ==
    /\ IF r.err = "none"
       THEN /\ st' = [st EXCEPT ![n] = r.st]
            /\ net' = Transmit(network, n, r.outs)
            /\ err' = err
            /\ pc' = [pc EXCEPT ![n] = "loop"]
       ELSE /\ st' = st
            /\ net' = network
            /\ err' = [err EXCEPT ![n] = r.err]
            /\ pc' = [pc EXCEPT ![n] = "dead"]
    /\ last' = [op |-> op, node |-> n]

Running(n) == pc[n] = "loop"

Init ==
    /\ st \in Configurations
    /\ pc = [n \in Nodes |-> "new"]
    /\ err = [n \in Nodes |-> "none"]
    /\ net = {}
    /\ last = [op |-> "init", node |-> None]
    /\ ticks = 0

\* Node.start(known)
Start(n, known) ==
    /\ pc[n] = "new"
    /\ Commit(n, start_handler(st[n], known), net, "start")
    /\ UNCHANGED ticks

\* main_loop: a timeout tick with no query in flight
TimeoutIdle(n) ==
    /\ Running(n)
    /\ st[n].query = NoQuery
    /\ ticks < MaxTicks
    /\ ticks' = ticks + 1
    /\ Commit(n, timeout_handler(st[n], FALSE), net, "tick")

\* main_loop: a timeout tick that finds the query older than QUERY_TIMEOUT
TimeoutExpired(n) ==
    /\ Running(n)
    /\ st[n].query # NoQuery
    /\ ticks < MaxTicks
    /\ ticks' = ticks + 1
    /\ Commit(n, timeout_handler(st[n], TRUE), net, "expire")

\* main_loop: a timeout tick that finds the query younger than QUERY_TIMEOUT
TimeoutWait(n) ==
    /\ Running(n)
    /\ st[n].query # NoQuery
    /\ LET r == timeout_handler(st[n], FALSE)
       IN  /\ st' = [st EXCEPT ![n] = r.st]
           /\ net' = Transmit(net, n, r.outs)
    /\ UNCHANGED <<pc, err, last, ticks>>

\* main_loop: io.recv() returned (m.src, m)
Receive(n, m) ==
    /\ Running(n)
    /\ m \in net
    /\ m.dst = n
    /\ Commit(n, recv_handler(st[n], m.src, m), net \ {m},
              IF m.kind \in ServerKinds THEN "serve" ELSE "response")
    /\ UNCHANGED ticks

\* the transport loses a message
Lose(m) ==
    /\ m \in net
    /\ net' = net \ {m}
    /\ last' = [op |-> "lose", node |-> None]
    /\ UNCHANGED <<st, pc, err, ticks>>

Next ==
    \/ \E n \in Nodes, known \in Knowns : Start(n, known)
    \/ \E n \in Nodes : TimeoutIdle(n)
    \/ \E n \in Nodes : TimeoutExpired(n)
    \/ \E n \in Nodes : TimeoutWait(n)
    \/ \E n \in Nodes, m \in net : Receive(n, m)
    \/ \E m \in net : Lose(m)

Spec == Init /\ [][Next]_vars

\* ============================================================ properties
NoDuplicates(l) == \A i, j \in 1..Len(l) : i # j => l[i] # l[j]

\* the timeout tick of node n ends a stabilize query on a joined node
StabilizeTimesOut(n) ==
    /\ TimeoutExpired(n)
    /\ st[n].joined
    /\ st[n].query.tag = "stabilize"

\* C1: in every reachable state, state.query is null if and only if
\* state.query_sent is null.
C1_QueryIffQuerySent ==
    \A n \in Nodes : (st[n].query = NoQuery) <=> (st[n].query_sent = NoTime)

\* C2: no sequence of start, receive and timeout events starts a query while
\* another is in flight: InterruptedQuery is never raised.
C2_NoInterruptedQuery ==
    \A n \in Nodes : err[n] # "InterruptedQuery"

\* a response ended a query and end_query put a new query (a chained query or
\* the rectify ping) into the slot
C2_Witness ==
    \E n \in Nodes :
        /\ last = [op |-> "response", node |-> n]
        /\ pc[n] = "loop"
        /\ st[n].query.tag \in {"get_succ", "join2", "stabilize2", "rectify"}

\* C3: in every reachable state, rectify_with is non-null only while a query
\* is in flight.
C3_RectifyOnlyWithQuery ==
    \A n \in Nodes : st[n].rectify_with # None => st[n].query # NoQuery

\* C4: a joined node has a non-empty succ_list, and once a node is joined it
\* is joined in every later state.
C4_JoinedStays ==
    /\ [](\A n \in Nodes : st[n].joined => Len(st[n].succ_list) >= 1)
    /\ [][\A n \in Nodes : st[n].joined => st'[n].joined]_vars

\* a node that joined by join2 has dropped its head in a stabilize timeout
C4_Witness ==
    \E n \in Nodes :
        /\ st[n].known # None
        /\ st[n].joined
        /\ last = [op |-> "expire", node |-> n]
        /\ st[n].query.tag = "stabilize"
        /\ Len(st[n].succ_list) = 1

\* C5: in every reachable state the length of succ_list is at most
\* SUCC_LIST_LEN.
C5_SuccListBounded ==
    \A n \in Nodes : Len(st[n].succ_list) <= SUCC_LIST_LEN

\* a node that joined by join2 holds a full list cut by make_succs
C5_Witness ==
    \E n \in Nodes :
        /\ st[n].known # None
        /\ st[n].joined
        /\ Len(st[n].succ_list) = SUCC_LIST_LEN

\* C6: in every reachable state succ_list holds no two equal pointers and
\* does not hold the node's own pointer.
C6_NoDuplicatesNoSelf ==
    \A n \in Nodes :
        /\ NoDuplicates(st[n].succ_list)
        /\ \A i \in 1..Len(st[n].succ_list) : st[n].succ_list[i] # n

\* C7: a received response that does not match the query in flight raises
\* UnexpectedMessage, sends nothing and leaves every State field as it was.
C7_UnexpectedLeavesState ==
    [][\A n \in Nodes : \A m \in net :
          ( /\ m.dst = n
            /\ m.kind \in ResponseKinds
            /\ \/ st[n].query = NoQuery
               \/ m.kind # ResKind(st[n].query)
               \/ m.src # st[n].query.dst
            /\ Receive(n, m) )
          => ( /\ st' = st
               /\ net' = net \ {m}
               /\ err'[n] = "UnexpectedMessage" )]_vars

\* a late reply reached a node whose query had been ended by a timeout
C7_Witness ==
    \E n \in Nodes :
        /\ err[n] = "UnexpectedMessage"
        /\ last = [op |-> "response", node |-> n]

\* C8: after recv_handler has raised UnexpectedMessage the node is not
\* stopped: its main loop is still running.
C8_UnexpectedIsRecoverable ==
    \A n \in Nodes : err[n] = "UnexpectedMessage" => pc[n] = "loop"

\* C9: a stabilize timeout on a joined node whose succ_list has exactly one
\* entry raises no error and leaves the node alive with an empty succ_list
\* and no query in flight.
C9_LastSuccessorTimeout ==
    [][\A n \in Nodes :
          (StabilizeTimesOut(n) /\ Len(st[n].succ_list) = 1)
          => ( /\ err'[n] = "none"
               /\ pc'[n] = "loop"
               /\ st'[n].succ_list = <<>>
               /\ st'[n].query = NoQuery )]_vars

\* C10: a stabilize timeout on a joined node whose succ_list has at least two
\* entries replaces succ_list by its tail and leaves a get_pred_and_succs
\* query to the new head in flight; pred and joined are unchanged.
C10_StabilizeTimeoutDropsHead ==
    [][\A n \in Nodes :
          (StabilizeTimesOut(n) /\ Len(st[n].succ_list) >= 2)
          => ( /\ err'[n] = "none"
               /\ st'[n].succ_list = Tail(st[n].succ_list)
               /\ st'[n].query.dst = st'[n].succ_list[1]
               /\ QueryMsg(st'[n].query).kind = "get_pred_and_succs"
               /\ ResKind(st'[n].query) = "got_pred_and_succs"
               /\ st'[n].pred = st[n].pred
               /\ st'[n].joined = st[n].joined )]_vars

\* a stabilize query to a failed head timed out and the next successor,
\* a different node, is being asked
C10_Witness ==
    \E n \in Nodes :
        /\ last = [op |-> "expire", node |-> n]
        /\ pc[n] = "loop"
        /\ st[n].joined
        /\ st[n].query.tag = "stabilize"
        /\ st[n].known = None
        /\ Len(st[n].succ_list) = 1
        /\ st[n].query.dst = st[n].succ_list[1]

\* the timeout tick of node n ends a query of the join chain
JoinChainTimesOut(n) ==
    /\ st[n].query.tag \in {"lookup_predecessor", "get_succ", "join2"}
    /\ TimeoutExpired(n)

\* C14: a timeout of a query of the join chain leaves the node unjoined with
\* pred and succ_list unchanged and no query in flight, and a timeout tick on
\* an unjoined node with no query in flight starts join_query(state.known).
C14_JoinTimeoutRetries ==
    [][\A n \in Nodes :
          /\ JoinChainTimesOut(n)
                => ( /\ err'[n] = "none"
                     /\ ~st'[n].joined
                     /\ st'[n].pred = st[n].pred
                     /\ st'[n].succ_list = st[n].succ_list
                     /\ st'[n].query = NoQuery )
          /\ (~st[n].joined /\ TimeoutIdle(n))
                => ( /\ err'[n] = "none"
                     /\ st'[n].query.tag = "lookup_predecessor"
                     /\ st'[n].query.dst = st[n].known
                     /\ st'[n].query.arg = n
                     /\ st[n].known # None )]_vars

\* after a failed join a timeout tick has started the join again
C14_Witness ==
    \E n \in Nodes :
        /\ last = [op |-> "tick", node |-> n]
        /\ pc[n] = "loop"
        /\ ~st[n].joined
        /\ st[n].query = join_query(st[n].known, n)

\* C15: every got_pred_and_succs response that ends a stabilize query,
\* also one whose first element is null, is handled without an error and
\* yields a notify or a stabilize2 query.
C15_StabilizeResponseTotal ==
    [][\A n \in Nodes : \A m \in net :
          ( /\ m.dst = n
            /\ m.kind = "got_pred_and_succs"
            /\ st[n].query.tag = "stabilize"
            /\ m.src = st[n].query.dst
            /\ Receive(n, m) )
          => ( /\ err'[n] = "none"
               /\ pc'[n] = "loop" )]_vars

\* the pred that a rectify ping ending with msg leaves on node n
RectifiedPred(n, msg) ==
    IF msg.kind # "None" /\ ~between(st[n].pred, st[n].query.arg, n)
    THEN st[n].pred
    ELSE st[n].query.arg

\* what the end of a rectify ping with msg does to node n
RectifyEnds(n, msg) ==
    /\ err'[n] = "none"
    /\ st'[n].pred = RectifiedPred(n, msg)
    /\ st'[n].succ_list = st[n].succ_list
    /\ st'[n].joined = st[n].joined
    /\ (st[n].rectify_with = None \/ ~st[n].joined) => st'[n].query = NoQuery

\* C16: when a rectify ping for notifier x ends on a node with predecessor p,
\* pred stays p if a pong came and x is not between p and ptr, and becomes x
\* otherwise (also on timeout); succ_list and joined are unchanged and the
\* continuation chains no query.
C16_RectifyDecision ==
    [][\A n \in Nodes :
          /\ (st[n].query.tag = "rectify" /\ TimeoutExpired(n)) => RectifyEnds(n, NoMsg)
          /\ \A m \in net :
                ( /\ m.dst = n
                  /\ st[n].query.tag = "rectify"
                  /\ m.kind = "pong"
                  /\ m.src = st[n].query.dst
                  /\ Receive(n, m) )
                => RectifyEnds(n, m)]_vars

\* the solo ring A has pinged itself for the notifier B and adopted B (A has
\* not had a timeout tick, so the response it handled is the pong)
C16_Witness ==
    /\ Nodes = {A, B}
    /\ last = [op |-> "response", node |-> A]
    /\ pc[A] = "loop"
    /\ st[A].pred = B
    /\ st[A].query = NoQuery
    /\ st[A].succ_list = <<A, A>>
    /\ st[B].joined

\* C18: a notify that arrives while a query is in flight only sets
\* rectify_with to its sender and sends nothing; a rectify ping started while
\* the slot was busy is started by end_query on a joined node, for the
\* notifier recorded last.
C18_NotifyDeferred ==
    [][\A n \in Nodes :
          /\ \A m \in net :
                ( /\ m.dst = n
                  /\ m.kind = "notify"
                  /\ st[n].query # NoQuery
                  /\ Receive(n, m) )
                => ( /\ st'[n] = [st[n] EXCEPT !.rectify_with = m.src]
                     /\ net' = net \ {m}
                     /\ err'[n] = "none" )
          /\ ( /\ st[n].query # NoQuery
               /\ st'[n].query.tag = "rectify"
               /\ st'[n].query # st[n].query )
                => ( /\ last'.node = n
                     /\ last'.op \in {"response", "expire"}
                     /\ st'[n].joined
                     /\ st[n].rectify_with # None
                     /\ st'[n].query.arg = st[n].rectify_with
                     /\ st'[n].rectify_with = None )]_vars

\* a pre-seeded node (its pred is never null, so try_rectify always drains
\* rectify_with) holds a notifier while its query is in flight
C18_Witness ==
    \E n \in Nodes :
        /\ st[n].known = None
        /\ st[n].joined
        /\ pc[n] = "loop"
        /\ st[n].query # NoQuery
        /\ st[n].rectify_with # None

RequestKinds == {"ping", "get_succ_list", "get_pred_and_succs", "get_best_predecessor"}

\* the response kind that answers a request kind
ReplyKind(kind) ==
    CASE kind = "ping" -> "pong"
      [] kind = "get_succ_list" -> "got_succ_list"
      [] kind = "get_pred_and_succs" -> "got_pred_and_succs"
      [] OTHER -> "got_best_predecessor"

\* C19: handling a server request leaves every State field unchanged and
\* emits exactly one reply, to the sender, of the corresponding kind, with or
\* without a query in flight and joined or not.
C19_RequestsLeaveState ==
    [][\A n \in Nodes : \A m \in net :
          ( /\ m.dst = n
            /\ m.kind \in RequestKinds
            /\ Receive(n, m) )
          => ( /\ st' = st
               /\ err' = err
               /\ \E r \in net' :
                     /\ r.src = n
                     /\ r.dst = m.src
                     /\ r.kind = ReplyKind(m.kind)
                     /\ net' = (net \ {m}) \cup {r} )]_vars

\* a node that is not joined and has a query in flight has answered a
\* request
C19_Witness ==
    \E n \in Nodes :
        /\ last = [op |-> "serve", node |-> n]
        /\ ~st[n].joined
        /\ st[n].query # NoQuery
        /\ st[n].rectify_with = None
        /\ \E r \in net : r.src = n /\ r.kind \in ResponseKinds

\* C20: while a stabilize query is in flight its destination is the head of
\* succ_list, so the assertion of the stabilize continuation never fails.
C20_StabilizeHeadStable ==
    \A n \in Nodes :
        /\ err[n] # "AssertionError"
        /\ st[n].query.tag = "stabilize"
              => (Len(st[n].succ_list) >= 1 /\ st[n].query.dst = st[n].succ_list[1])

\* a stabilize continuation has run on a response and found a closer
\* successor
C20_Witness ==
    \E n \in Nodes :
        /\ last = [op |-> "response", node |-> n]
        /\ pc[n] = "loop"
        /\ st[n].query.tag = "stabilize2"

\* ============================================= the scenarios of the spec
\* The scenarios run on a transport that loses nothing and answers every
\* query before QUERY_TIMEOUT: no message is dropped, no query expires, and
\* the number of timeout ticks is not limited.

\* send_all over a transport that delivers everything
TransmitAll(network, n, outs) ==
    network \cup {[src |-> n, dst |-> outs[i].dst, kind |-> outs[i].kind,
                   data |-> outs[i].data] : i \in 1..Len(outs)}

Deliver(n, r, network, op) ==
    /\ IF r.err = "none"
       THEN /\ st' = [st EXCEPT ![n] = r.st]
            /\ net' = TransmitAll(network, n, r.outs)
            /\ err' = err
            /\ pc' = [pc EXCEPT ![n] = "loop"]
       ELSE /\ st' = st
            /\ net' = network
            /\ err' = [err EXCEPT ![n] = r.err]
            /\ pc' = [pc EXCEPT ![n] = "dead"]
    /\ last' = [op |-> op, node |-> n]

CommitAll(n, r, network, op) ==
    /\ Deliver(n, r, network, op)
    /\ UNCHANGED ticks

\* Node.start: a pre-seeded node starts with known = null, a fresh one with A
ScenarioStart(n) ==
    /\ pc[n] = "new"
    /\ CommitAll(n, start_handler(st[n], IF st[n].joined THEN None ELSE A), net, "start")

\* main_loop: a timeout tick with no query in flight
ScenarioTick(n) ==
    /\ Running(n)
    /\ st[n].query = NoQuery
    /\ CommitAll(n, timeout_handler(st[n], FALSE), net, "tick")

\* main_loop: io.recv() returned (m.src, m)
ScenarioReceive(n, m) ==
    /\ Running(n)
    /\ m \in net
    /\ m.dst = n
    /\ CommitAll(n, recv_handler(st[n], m.src, m), net \ {m},
                 IF m.kind \in ServerKinds THEN "serve" ELSE "response")

\* io.recv() returns a message of kind k that src sent to n
ScenarioReceiveFrom(n, src, k) ==
    \E m \in net : m.src = src /\ m.kind = k /\ ScenarioReceive(n, m)

ScenarioNext ==
    \/ \E n \in Nodes : ScenarioStart(n)
    \/ \E n \in Nodes : ScenarioTick(n)
    \/ \E n \in Nodes, m \in net : ScenarioReceive(n, m)

\* Every node is started and every message in flight is received (a node has
\* at most one message of a kind in flight to another). main_loop checks the
\* stabilize interval before every io.recv(), so a node that is without a
\* query again and again does take its tick.
ScenarioFairness ==
    /\ \A n \in {A, B} : WF_vars(n \in Nodes /\ ScenarioStart(n))
    /\ \A n \in {A, B} : SF_vars(n \in Nodes /\ ScenarioTick(n))
    /\ \A n \in {A, B}, src \in {A, B}, k \in ServerKinds \cup ResponseKinds :
           WF_vars(n \in Nodes /\ ScenarioReceiveFrom(n, src, k))

ScenarioInit(config) ==
    /\ st = config
    /\ pc = [n \in Nodes |-> "new"]
    /\ err = [n \in Nodes |-> "none"]
    /\ net = {}
    /\ last = [op |-> "init", node |-> None]
    /\ ticks = 0

\* scenario 1: the solo ring
Solo == [n \in {A} |-> Seeded(A, A, <<A, A>>)]

\* scenarios 1 and 2: the solo ring A, and B joining the solo ring A
ScenarioSpec ==
    /\ \E config \in {Solo, SoloRing} : ScenarioInit(config)
    /\ [][ScenarioNext]_vars
    /\ ScenarioFairness

\* C12: on a transport that answers every query, the single node A keeps
\* pred = A and succ_list = [A, A] in every reachable state and never raises
\* an error
C12_SoloRingStable ==
    Nodes = {A} =>
        /\ st[A].pred = A
        /\ st[A].succ_list = <<A, A>>
        /\ err[A] = "none"
        /\ pc[A] # "dead"

\* A has just run the continuation of a query it sent to and answered itself
C12_Witness ==
    /\ Nodes = {A}
    /\ last = [op |-> "response", node |-> A]
    /\ pc[A] = "loop"
    /\ st[A].query = NoQuery
    /\ st[A].rectify_with = None

TwoNodeRing ==
    /\ st[A].pred = B
    /\ st[A].succ_list = <<B, A>>
    /\ st[B].pred = A
    /\ st[B].succ_list = <<A, B>>

\* C11: with no loss and fair delivery and ticks, B joining the solo ring A
\* eventually gives A pred = B, succ_list = [B, A] and B pred = A,
\* succ_list = [A, B]
C11_TwoNodeJoin == (Nodes = {A, B}) => <>TwoNodeRing

\* scenario 3: D joins the ring A, B, C
Insertion == [n \in {A, B, C, D} |-> IF n = D THEN Fresh(D) ELSE FullRing[n]]

\* The four nodes have the same stabilize_interval, so their intervals elapse
\* in rotation: ticks counts the timeout ticks modulo the number of nodes.
Rotation == <<A, C, D, B>>
Turn == Rotation[(ticks % 4) + 1]

\* nothing is left to receive
Settled ==
    /\ \A n \in Nodes : pc[n] # "new"
    /\ \A m \in net : pc[m.dst] # "loop"

\* main_loop: the interval of n elapses with no query in flight; A and C
\* reach theirs after the traffic of the earlier ticks has been handled
InsertionTick(n) ==
    /\ n = Turn
    /\ Running(n)
    /\ st[n].query = NoQuery
    /\ n \in {A, C} => Settled
    /\ Deliver(n, timeout_handler(st[n], FALSE), net, "tick")
    /\ ticks' = (ticks + 1) % 4

\* main_loop: the interval of n elapses while its query is in flight (and
\* younger than QUERY_TIMEOUT), or n is not running
InsertionWait(n) ==
    /\ n = Turn
    /\ ~(Running(n) /\ st[n].query = NoQuery)
    /\ ticks' = (ticks + 1) % 4
    /\ UNCHANGED <<st, pc, err, net, last>>

InsertionNext ==
    \/ \E n \in Nodes : ScenarioStart(n)
    \/ \E n \in Nodes : InsertionTick(n)
    \/ \E n \in Nodes : InsertionWait(n)
    \/ \E n \in Nodes, m \in net : ScenarioReceive(n, m)

\* every node is started, every interval elapses and every message in flight
\* is received
InsertionFairness ==
    /\ \A n \in {A, B, C, D} : WF_vars(ScenarioStart(n))
    /\ \A n \in {A, B, C, D} : WF_vars(InsertionTick(n) \/ InsertionWait(n))
    /\ \A n \in {A, B, C, D}, src \in {A, B, C, D}, k \in ServerKinds \cup ResponseKinds :
           WF_vars(ScenarioReceiveFrom(n, src, k))

InsertionSpec == ScenarioInit(Insertion) /\ [][InsertionNext]_vars /\ InsertionFairness

Inserted ==
    /\ st[D].pred = B
    /\ st[D].succ_list # <<>>
    /\ st[D].succ_list[1] = C
    /\ st[B].succ_list[1] = D
    /\ st[C].pred = D

\* C13: with no loss and fair delivery, D joining the ring A, B, C through A
\* eventually has pred = B and first successor C, B has first successor D
\* and C has pred = D
C13_Insertion == <>Inserted

\* ============================================= fair timeout ticks
\* The lossy transport again, with a main loop that never stops ticking: the
\* ticks are not limited, and a query in flight does get older than
\* QUERY_TIMEOUT.

\* main_loop: a timeout tick with no query in flight
TickIdle(n) ==
    /\ Running(n)
    /\ st[n].query = NoQuery
    /\ Commit(n, timeout_handler(st[n], FALSE), net, "tick")
    /\ UNCHANGED ticks

\* main_loop: a timeout tick that finds the query older than QUERY_TIMEOUT
TickExpired(n) ==
    /\ Running(n)
    /\ st[n].query # NoQuery
    /\ Commit(n, timeout_handler(st[n], TRUE), net, "expire")
    /\ UNCHANGED ticks

TimeoutNext ==
    \/ \E n \in Nodes, known \in Knowns : Start(n, known)
    \/ \E n \in Nodes : TickIdle(n)
    \/ \E n \in Nodes : TickExpired(n)
    \/ \E n \in Nodes : TimeoutWait(n)
    \/ \E n \in Nodes, m \in net : Receive(n, m)
    \/ \E m \in net : Lose(m)

\* while True in main_loop: a running node keeps reaching its timeout check
TimeoutFairness ==
    /\ \A n \in {A} : WF_vars(TickIdle(n))
    /\ \A n \in {A} : WF_vars(TickExpired(n))

TimeoutSpec == ScenarioInit(Solo) /\ [][TimeoutNext]_vars /\ TimeoutFairness

\* end_query has just run the continuation of n's query and returned
QueryEnded(n) ==
    /\ last.node = n
    /\ last.op \in {"response", "expire"}
    /\ pc[n] = "loop"

\* C17: under fair timeout ticks, whatever is lost, a query in flight at a
\* running node is eventually ended by its response or by QUERY_TIMEOUT
C17_QueryEventuallyEnded ==
    \A n \in {A} : (Running(n) /\ st[n].query # NoQuery) ~> QueryEnded(n)

====
